---- MODULE Spec2Model ----
(***************************************************************************)
(* Streaming agent-response pipeline of the equity-bot backend.            *)
(*                                                                         *)
(*   chat_endpoint -> stream_agent_response   app/api/v1/endpoints/api.py   *)
(*   generate_events                          app/api/v1/endpoints/api.py   *)
(*   create_agent, run_agent_with_streaming   app/api/v1/services/          *)
(*                                            main_agent.py                 *)
(*   qdrant_search_tool                       app/tools/document_search.py  *)
(*   CustomDocument.search                    app/models/models.py          *)
(*   search_qdrant_with_filters               app/api/v1/services/          *)
(*                                            qdrant_utils.py               *)
(*   web_search_tool                          app/tools/web_search.py       *)
(*                                                                         *)
(* One chat request is followed from the HTTP handler to the end of its    *)
(* event stream.  Text is modelled by TLA+ strings, character by           *)
(* character.                                                              *)
(***************************************************************************)
EXTENDS Integers, Sequences, FiniteSets, TLC

(***************************************************************************)
(* Bounds of the model.                                                    *)
(***************************************************************************)
\* text-delta fragments the model stream delivers within one turn
MaxFrags == 3

(***************************************************************************)
(* Program constants.                                                      *)
(***************************************************************************)
\* main_agent.py:226  len(initial_buffer) >= 15
MinInitialLen == 15
\* main_agent.py:245  len(initial_buffer) < 25
MaxRepairLen == 25
\* document_search.py:24  num_results default
DefaultNumResults == 5
\* api.py:73  thread.messages[-2:]
HistoryWindow == 2

None == "None"

(***************************************************************************)
(* Python str operations used by the code.                                 *)
(***************************************************************************)
\* s.startswith(p)
StartsWith(s, p) == Len(s) >= Len(p) /\ SubSeq(s, 1, Len(p)) = p

\* s.endswith(p)
EndsWith(s, p) ==
    Len(s) >= Len(p) /\ SubSeq(s, Len(s) - Len(p) + 1, Len(s)) = p

\* c in s, for a one-character c
Contains(s, c) == \E i \in 1..Len(s) : SubSeq(s, i, i) = c

\* the characters str.strip / str.lstrip remove
IsSpace(c) == c \in {" ", "\n", "\t", "\r", "\f"}

\* mutant of LStrip: leading whitespace is kept
LStrip_Keep(s) == s

RECURSIVE LStrip(_)
\* s.lstrip()
LStrip(s) ==
    IF Len(s) > 0 /\ IsSpace(SubSeq(s, 1, 1)) THEN LStrip(Tail(s)) ELSE s

\* bool(s.strip()): some character of s is not whitespace
StripNonEmpty(s) == \E i \in 1..Len(s) : ~IsSpace(SubSeq(s, i, i))

RECURSIVE Replace(_, _, _)
\* s.replace(old, new), old non-empty: every non-overlapping occurrence,
\* left to right
Replace(s, old, new) ==
    IF Len(s) < Len(old) THEN s
    ELSE IF SubSeq(s, 1, Len(old)) = old
         THEN new \o Replace(SubSeq(s, Len(old) + 1, Len(s)), old, new)
         ELSE SubSeq(s, 1, 1) \o Replace(Tail(s), old, new)

\* mutant of LastN: the whole sequence
LastN_All(seq, n) == seq

\* seq[-n:]
LastN(seq, n) ==
    IF Len(seq) <= n THEN seq ELSE SubSeq(seq, Len(seq) - n + 1, Len(seq))

(***************************************************************************)
(* The conversation store (MongoDB) and the vector store (Qdrant) as the   *)
(* request finds them.                                                     *)
(***************************************************************************)
\* User documents
Users == {"uA", "uB"}
\* user ids a request may carry; "uX" names no User
UserIds == Users \cup {"uX"}

\* Thread documents before the request
InitThreads ==
    ("t1" :> [user |-> "uA", messages |-> <<"m1", "m2", "m3">>]) @@
    ("t2" :> [user |-> "uB", messages |-> <<"m4">>])

\* Message documents before the request
InitMessages ==
    ("m1" :> [user |-> "uA", user_query |-> "q1", agent_response |-> "r1"]) @@
    ("m2" :> [user |-> "uA", user_query |-> "q2", agent_response |-> "r2"]) @@
    ("m3" :> [user |-> "uA", user_query |-> "q3", agent_response |-> "r3"]) @@
    ("m4" :> [user |-> "uB", user_query |-> "q4", agent_response |-> "r4"])

\* ids the store gives to the documents this request creates
NewThreadId == "t9"
NewMessageId == "m9"

\* CustomDocument documents: id -> owner
Documents == ("dA" :> "uA") @@ ("dB" :> "uB")

\* points of the os_custom_document collection (write_to_qdrant payloads)
Points ==
    { [object_id |-> "dA", user_id |-> "uA", chunk |-> "cA1"],
      [object_id |-> "dA", user_id |-> "uA", chunk |-> "cA2"],
      [object_id |-> "dB", user_id |-> "uB", chunk |-> "cB1"] }

\* create_semantic_chunks (models.py:62-69): the chunks of a document
Chunks(d) == {p.chunk : p \in {q \in Points : q.object_id = d}}

\* write_to_qdrant (qdrant_utils.py:60-84): one point per chunk, each under
\* a new random id (uuid4), with the document id and the metadata as payload
write_to_qdrant(obj_id, chunks, metadata) ==
    { [id |-> "uuid4-" \o c, object_id |-> obj_id, user_id |-> metadata,
       chunk |-> c] : c \in chunks }

\* the collection with the documents of the store uploaded
InitCollection ==
    UNION { write_to_qdrant(d, Chunks(d), Documents[d]) :
              d \in DOMAIN Documents }

\* no document search yet
NoSearch ==
    [hits |-> <<>>, results |-> <<>>, stored |-> {}, fault |-> "none",
     limit |-> 0]

\* the text-delta fragments the model stream may deliver
Fragments == {"I", " w", "ill be", " back."}

\* raw events that are no text delta
OtherEvents == {"PartStartEvent", "ToolCallPartDelta"}

\* response texts of which the model stream delivers one, cut into
\* fragments in every possible way
Scripts ==
    { "I will be back.",
      " apologize, I misread", "apologize, I misread",
      "'d go.", "d go.", "'ll go.", "ll go.", "'m in.", "m in.",
      "d find and go.",
      " am ok.", "am ok.", " can do.", "can do.", " will do.", "will do.",
      "he end.", "et go.", " so.",
      "Inflation rose 2%, ok",
      "Ok.a b,c:d-e", "Ok.a;b!\nc?d.e",
      " this is a long sentence ok",
      "Hi there" }

\* chat requests (ChatRequest, api.py:28-33)
Requests ==
    [user_id : UserIds,
     query : {"q"},
     thread_id : {None, "t1", "t2", "t0"},
     web_search : BOOLEAN,
     document_id : {None, "dA", "dB", "d0"}]

\* no request yet
NoRequest ==
    [user_id |-> None, query |-> "", thread_id |-> None,
     web_search |-> FALSE, document_id |-> None]

\* no tool call yet
NoResult ==
    [tool |-> None, fault |-> "none", raised |-> FALSE, returned |-> None,
     results |-> <<>>, total_results |-> 0]

\* no Agent yet
NoAgent == [tools |-> {}, scope |-> None]

\* chat requests handled at the same time, each by its own call of
\* chat_endpoint
Turns == {1, 2}

\* a call of chat_endpoint that has not begun: its request, its position,
\* its locals `thread` (id and the messages list as loaded), `message` and
\* `full_response`, the events it has sent, the text its model has sent
NoTurn ==
    [req |-> NoRequest, pc |-> "none", thread |-> None,
     thread_messages |-> <<>>, message |-> None, full_response |-> "",
     events |-> <<>>, raw |-> ""]

\* the ids the store gives to the documents each call creates
TurnThreadId == (1 :> "t9") @@ (2 :> "t10")
TurnMessageId == (1 :> "m9") @@ (2 :> "m10")

\* the fragments the model of each call sends
TurnFragments == (1 :> {"I", " w"}) @@ (2 :> {"We", " go"})

\* the requests of the calls that run together
TurnRequests ==
    [user_id : Users, query : {"q"}, thread_id : {None, "t1", "t2"},
     web_search : {FALSE}, document_id : {None}]

VARIABLES
    req,                    \* the ChatRequest
    httpStatus,             \* 0: no response yet, 200: StreamingResponse, 500
    threads, messages,      \* the conversation store
    agent,                  \* the Agent create_agent built
    thread, message,        \* ids of the resolved thread and the draft turn
    conversation_history,   \* list of {role, content}
    exception,              \* detail of the exception the handler raised
    caller,                 \* the user the caller has proven to be, or None
    turns,                  \* the calls of chat_endpoint that run together
    collection,             \* the points of the vector store's collection
    custom_documents,       \* CustomDocument documents: id -> owner
    search,                 \* the last document search: hits and results
    gpc,                    \* position of generate_events
    events,                 \* the server-sent events, in order
    full_response,          \* generate_events' accumulator
    writes,                 \* saves of the draft's agent_response so far
    rpc,                    \* position of run_agent_with_streaming
    current_text, buffer, initial_buffer, first_response_started,
    nfrags,                 \* text-delta fragments received so far
    lastEvent,              \* kind of the last event of the open stream
    yielded,                \* the AgentResponses yielded so far
    toolResult,             \* the outcome of the last tool call
    script,                 \* text the model response has still to deliver
    raw                     \* the text of all text deltas received so far

store == <<threads, messages>>
index == <<collection, custom_documents, search>>
handler ==
    <<req, httpStatus, agent, thread, message, conversation_history,
      exception, caller, turns, index>>
controller == <<gpc, events, full_response, writes>>
reassembler ==
    <<rpc, current_text, buffer, initial_buffer, first_response_started,
      nfrags, lastEvent, yielded>>
model_stream == <<script, raw>>
vars == <<store, handler, controller, reassembler, toolResult, model_stream>>

Ev(type, text) == [type |-> type, content |-> text]

(***************************************************************************)
(* create_agent (main_agent.py:39-112).  The Agent is its toolset and the  *)
(* user id its system prompt tells the model to pass to the search tool    *)
(* (None when the prompt carries no such instruction).  Building the model *)
(* fails when the credentials or the model name are absent: the inner      *)
(* except only prints, `model` stays unbound and the outer except          *)
(* re-raises.                                                              *)
(***************************************************************************)
create_agent(web_search, document_search, document_user_id, credsOk) ==
    IF ~credsOk THEN [raised |-> TRUE, tools |-> {}, scope |-> None]
    ELSE IF web_search
         THEN [raised |-> FALSE, tools |-> {"web_search_tool"}, scope |-> None]
    ELSE IF document_search
         THEN [raised |-> FALSE, tools |-> {"qdrant_search_tool"},
               scope |-> document_user_id]
    ELSE [raised |-> FALSE, tools |-> {}, scope |-> None]

\* the call of create_agent in stream_agent_response (api.py:53): no
\* document_user_id is passed, so the parameter keeps its default None
AgentFor(web_search, use_document_search, user_id, credsOk) ==
    create_agent(web_search, use_document_search, None, credsOk)

\* CustomDocument.objects(id=document_id, user=user_id).first() (api.py:173)
FindDocument(document_id, user_id) ==
    document_id \in DOMAIN Documents /\ Documents[document_id] = user_id

\* User.objects(id=user_id).first() (api.py:56)
FindUser(user_id) == user_id \in Users

\* mutant of FindThread: the lookup forgets the owner
FindThread_AnyOwner(ths, thread_id, user_id) == thread_id \in DOMAIN ths

\* Thread.objects(id=thread_id, user=user).first() (api.py:63)
FindThread(ths, thread_id, user_id) ==
    thread_id \in DOMAIN ths /\ ths[thread_id].user = user_id

\* api.py:70-81: the last two turns of the thread, then the current query
History(ths, msgs, tid, query) ==
    LET last_messages == LastN(ths[tid].messages, HistoryWindow)
        Pair(m) == << [role |-> "user", content |-> msgs[m].user_query],
                      [role |-> "assistant",
                       content |-> msgs[m].agent_response] >>
        F[i \in 0..Len(last_messages)] ==
            IF i = 0 THEN <<>> ELSE F[i - 1] \o Pair(last_messages[i])
    IN  F[Len(last_messages)] \o <<[role |-> "user", content |-> query]>>

\* main_agent.py:195-204: the prompt given to agent.iter
formatted_prompt(query, history) ==
    LET Line(msg) ==
            (IF msg.role = "user" THEN "User" ELSE "Assistant")
                \o ": " \o msg.content \o "\n"
        F[i \in 0..Len(history)] ==
            IF i = 0 THEN "Previous conversation:\n"
            ELSE F[i - 1] \o Line(history[i])
    IN  IF Len(history) > 1
        THEN F[Len(history) - 1] \o "\nCurrent query: " \o query
        ELSE query

\* Thread(user=user, messages=[]).save() (api.py:68)
CreateThread(ths, tid, user_id) ==
    ths @@ (tid :> [user |-> user_id, messages |-> <<>>])

\* Message(user, user_query=query, agent_response="").save() (api.py:84-89)
CreateMessage(msgs, mid, user_id, query) ==
    msgs @@ (mid :> [user |-> user_id, user_query |-> query,
                     agent_response |-> ""])

\* mutant of AppendMessage: the draft is not appended to the thread
AppendMessage_Skip(ths, tid, mid) == ths

\* mutant of AppendMessage: the draft is appended twice
AppendMessage_Twice(ths, tid, mid) ==
    [ths EXCEPT ![tid].messages = Append(Append(@, mid), mid)]

\* thread.messages.append(message); thread.save() (api.py:92-93)
AppendMessage(ths, tid, mid) ==
    [ths EXCEPT ![tid].messages = Append(@, mid)]

\* mutant of UseDocumentSearch: a document id does not select the mode
UseDocumentSearch_Never(r) == FALSE

\* what chat_endpoint decides before it calls stream_agent_response
\* (api.py:169-177)
UseDocumentSearch(r) == r.document_id # None

\* mutant of EffectiveWebSearch: a document id does not turn web search off
EffectiveWebSearch_KeepFlag(r) == r.web_search

EffectiveWebSearch(r) == IF r.document_id # None THEN FALSE ELSE r.web_search

\* mutant of DocumentDenied: the document is not looked up
DocumentDenied_Never(r) == FALSE

\* the requests chat_endpoint answers with an HTTPException (api.py:171-175)
DocumentDenied(r) ==
    r.document_id # None /\ ~FindDocument(r.document_id, r.user_id)

\* the requests stream_agent_response answers with an HTTPException
\* (api.py:56-65)
ResolutionFails(ths, r) ==
    \/ ~FindUser(r.user_id)
    \/ r.thread_id # None /\ ~FindThread(ths, r.thread_id, r.user_id)

Init ==
    /\ req = NoRequest
    /\ httpStatus = 0
    /\ threads = InitThreads
    /\ messages = InitMessages
    /\ agent = NoAgent
    /\ thread = None
    /\ message = None
    /\ conversation_history = <<>>
    /\ exception = None
    /\ caller = None
    /\ turns = [i \in Turns |-> NoTurn]
    /\ collection = InitCollection
    /\ custom_documents = Documents
    /\ search = NoSearch
    /\ gpc = "none"
    /\ events = <<>>
    /\ full_response = ""
    /\ writes = 0
    /\ rpc = "none"
    /\ current_text = ""
    /\ buffer = ""
    /\ initial_buffer = ""
    /\ first_response_started = FALSE
    /\ nfrags = 0
    /\ lastEvent = None
    /\ yielded = <<>>
    /\ toolResult = NoResult
    /\ script = ""
    /\ raw = ""

(***************************************************************************)
(* POST /chat: chat_endpoint (api.py:163-187) and the body of              *)
(* stream_agent_response up to its return (api.py:49-130).  Neither        *)
(* awaits anything before the StreamingResponse is returned.  Every        *)
(* exception, the 404 HTTPExceptions included, is caught by `except        *)
(* Exception` and raised again as HTTPException(500).                      *)
(***************************************************************************)
\* mutant of HttpError: the event stream is started all the same
HttpError_Stream(r, detail) ==
    /\ req' = r
    /\ httpStatus' = 500
    /\ exception' = detail
    /\ gpc' = "start"
    /\ rpc' = "start"
    /\ UNCHANGED <<store, agent, thread, message, conversation_history,
                   caller, turns, index, events, full_response, writes,
                   current_text, buffer, initial_buffer,
                   first_response_started, nfrags, lastEvent, yielded,
                   toolResult, model_stream>>

\* api.py:129-130: whatever the body raises leaves as HTTPException(500)
HttpError(r, detail) ==
    /\ req' = r
    /\ httpStatus' = 500
    /\ exception' = detail
    /\ UNCHANGED <<store, agent, thread, message, conversation_history,
                   caller, turns, index, controller, reassembler, toolResult,
                   model_stream>>

stream_agent_response(r, credsOk) ==
    LET a == AgentFor(EffectiveWebSearch(r), UseDocumentSearch(r),
                      r.user_id, credsOk)
        tid == IF r.thread_id # None THEN r.thread_id ELSE NewThreadId
        ths1 == IF r.thread_id # None THEN threads
                ELSE CreateThread(threads, tid, r.user_id)
    IN  IF a.raised THEN HttpError(r, "create_agent")
        ELSE IF ~FindUser(r.user_id) THEN HttpError(r, "User not found")
        ELSE IF ResolutionFails(threads, r)
        THEN HttpError(r, "Thread not found")
        ELSE /\ req' = r
             /\ httpStatus' = 200
             /\ agent' = [tools |-> a.tools, scope |-> a.scope]
             /\ thread' = tid
             /\ message' = NewMessageId
             /\ conversation_history' = History(ths1, messages, tid, r.query)
             /\ messages' =
                    CreateMessage(messages, NewMessageId, r.user_id, r.query)
             /\ threads' = AppendMessage(ths1, tid, NewMessageId)
             /\ gpc' = "start"
             /\ rpc' = "start"
             /\ UNCHANGED <<events, full_response, writes, current_text,
                            buffer, initial_buffer, first_response_started,
                            nfrags, lastEvent, yielded, toolResult,
                            model_stream, exception, caller, turns,
                            index>>

chat_endpoint ==
    /\ httpStatus = 0
    /\ \E r \in Requests, credsOk \in BOOLEAN :
          IF DocumentDenied(r)
          THEN HttpError(r, "Document not found or access denied")
          ELSE stream_agent_response(r, credsOk)

(***************************************************************************)
(* Retrieval tools.                                                        *)
(***************************************************************************)
\* the orders in which the vector store may rank the points for a query
Rankings ==
    { f \in [1..Cardinality(Points) -> Points] :
        \A i, j \in 1..Cardinality(Points) : f[i] = f[j] => i = j }

RECURSIVE FilterHits(_, _)
\* the points of a ranking whose payload matches every `must` condition
FilterHits(ranking, user_id) ==
    IF ranking = <<>> THEN <<>>
    ELSE IF Head(ranking).user_id = user_id
         THEN <<Head(ranking)>> \o FilterHits(Tail(ranking), user_id)
         ELSE FilterHits(Tail(ranking), user_id)

\* ranking[:limit]
Take(seq, n) == IF Len(seq) <= n THEN seq ELSE SubSeq(seq, 1, n)

\* search_qdrant_with_filters (qdrant_utils.py:98-148): `filters` is None or
\* the value of its one key user_id; any exception gives [].  `ranking` is
\* the order in which the store ranks its points for query_vector: any
\* order, for the embedding of a query as for the zero vector
search_qdrant_with_filters(ranking, query_vector, filters, limit, searchOk) ==
    IF ~searchOk THEN <<>>
    ELSE IF filters # None
         THEN Take(FilterHits(ranking, filters), limit)
         ELSE Take(ranking, limit)

RECURSIVE DictKeys(_)
\* the keys of {object_id: chunk for result in hits}, in insertion order
DictKeys(hits) ==
    IF hits = <<>> THEN <<>>
    ELSE LET rest == DictKeys(SubSeq(hits, 1, Len(hits) - 1))
             k == hits[Len(hits)].object_id
         IN  IF \E i \in 1..Len(rest) : rest[i] = k THEN rest
             ELSE Append(rest, k)

\* the value the dict comprehension leaves under key k: the last one written
DictValue(hits, k) ==
    LET last == CHOOSE i \in 1..Len(hits) :
                    /\ hits[i].object_id = k
                    /\ \A j \in (i + 1)..Len(hits) : hits[j].object_id # k
    IN  hits[last].chunk

RECURSIVE KeepStored(_)
\* `if result.payload.get("object_id") and result.payload.get("chunk")`
KeepStored(hits) ==
    IF hits = <<>> THEN <<>>
    ELSE IF Head(hits).object_id # "" /\ Head(hits).chunk # ""
         THEN <<Head(hits)>> \o KeepStored(Tail(hits))
         ELSE KeepStored(Tail(hits))

\* the internal errors a document search may meet: the embeddings call
\* raises, the vector store raises, a hit comes without payload
SearchFaults == {"none", "embedding", "store", "hit"}

\* generate_vector (qdrant_utils.py:28-58): the embedding of the query, or
\* the zero vector when the embeddings call raises
generate_vector(embedOk) == IF embedOk THEN "embedding" ELSE "zeros"

\* CustomDocument.search (models.py:128-167): the values of result_dict.
\* A hit without payload makes the dict comprehension raise, which the
\* except block turns into {}
CustomDocument_search(ranking, filters, limit, fault) ==
    LET search_vector == generate_vector(fault # "embedding")
        search_results ==
            search_qdrant_with_filters(ranking, search_vector, filters,
                                       limit, fault # "store")
        hits == KeepStored(search_results)
        keys == DictKeys(hits)
    IN  IF fault = "hit" THEN <<>>
        ELSE [i \in 1..Len(keys) |-> DictValue(hits, keys[i])]

\* qdrant_search_tool (document_search.py:21-67)
qdrant_search_tool(ranking, num_results, user_id, fault) ==
    LET results == CustomDocument_search(
                       ranking, IF user_id # "" THEN user_id ELSE None,
                       num_results, fault)
    IN  [tool |-> "qdrant_search_tool", fault |-> fault, raised |-> FALSE,
         returned |-> "QdrantSearchResponse",
         results |-> results, total_results |-> Len(results)]

\* web_search_tool (web_search.py:22-96): without an API key it raises;
\* when the search API fails it returns two mock results
web_search_tool(num_results, keySet, apiOk) ==
    IF ~keySet
    THEN [tool |-> "web_search_tool", fault |-> "no_key", raised |-> TRUE,
          returned |-> None, results |-> <<>>, total_results |-> 0]
    ELSE IF apiOk
    THEN [tool |-> "web_search_tool", fault |-> "none", raised |-> FALSE,
          returned |-> "WebSearchResponse",
          results |-> <<"w1">>, total_results |-> num_results]
    ELSE [tool |-> "web_search_tool", fault |-> "api", raised |-> FALSE,
          returned |-> "WebSearchResponse",
          results |-> <<"Mock search result 1", "Mock search result 2">>,
          total_results |-> 2]

(***************************************************************************)
(* The document index: upload (api.py:132-161, models.py:71-125), delete   *)
(* (models.py:169-187) and search (document_search.py:21-67) on the        *)
(* CustomDocument documents and the points of their collection.            *)
(***************************************************************************)
\* the orders in which the vector store may rank the points it holds
RankingsOf(S) ==
    { f \in [1..Cardinality(S) -> S] :
        \A i, j \in 1..Cardinality(S) : f[i] = f[j] => i = j }

\* uuid.uuid5(uuid.NAMESPACE_DNS, str(self.id)) (models.py:177)
stable_uuid(d) == "uuid5-" \o d

\* upload_document: the document is saved and its chunks are written to the
\* collection; when that write raises, the document stays, as failed
upload_document(d) ==
    /\ d \in DOMAIN Documents
    /\ d \notin DOMAIN custom_documents
    /\ \A p \in collection : p.object_id # d
    /\ custom_documents' = custom_documents @@ (d :> Documents[d])
    /\ \E writeOk \in BOOLEAN :
          collection' =
              IF writeOk
              THEN collection \cup write_to_qdrant(d, Chunks(d), Documents[d])
              ELSE collection
    /\ UNCHANGED <<store, req, httpStatus, agent, thread, message,
                   conversation_history, exception, caller, turns, search,
                   controller, reassembler, toolResult, model_stream>>

\* CustomDocument.delete: the document is deleted, then the point whose id
\* is the stable uuid of the document id.  Deleting a point id the
\* collection does not hold is no error
CustomDocument_delete(d) ==
    /\ d \in DOMAIN custom_documents
    /\ custom_documents' =
           [x \in DOMAIN custom_documents \ {d} |-> custom_documents[x]]
    /\ collection' = {p \in collection : p.id # stable_uuid(d)}
    /\ UNCHANGED <<store, req, httpStatus, agent, thread, message,
                   conversation_history, exception, caller, turns, search,
                   controller, reassembler, toolResult, model_stream>>

\* a call of qdrant_search_tool on the collection as it is: the hits the
\* store returns for the scoped query, and the results of the tool
document_search ==
    /\ \E ranking \in RankingsOf(collection),
          num_results \in {1, DefaultNumResults},
          user_id \in Users \cup {""}, fault \in SearchFaults :
          search' =
              [hits |-> search_qdrant_with_filters(
                            ranking, generate_vector(fault # "embedding"),
                            IF user_id # "" THEN user_id ELSE None,
                            num_results, fault # "store"),
               results |-> qdrant_search_tool(ranking, num_results, user_id,
                                              fault).results,
               stored |-> DOMAIN custom_documents,
               fault |-> fault,
               limit |-> num_results]
    /\ UNCHANGED <<store, req, httpStatus, agent, thread, message,
                   conversation_history, exception, caller, turns,
                   collection, custom_documents, controller, reassembler,
                   toolResult, model_stream>>

\* the user of the point a chunk text is stored with
ChunkOwner(text) == (CHOOSE p \in Points : p.chunk = text).user_id

(***************************************************************************)
(* The Delta Reassembler: run_agent_with_streaming                         *)
(* (main_agent.py:184-295).                                                *)
(***************************************************************************)
\* mutant of InitialReady: the sentence terminators are not looked for
InitialReady_LenOnly(b) == Len(b) >= MinInitialLen

\* main_agent.py:226
InitialReady(b) ==
    \/ Len(b) >= MinInitialLen
    \/ Contains(b, ".") \/ Contains(b, "!") \/ Contains(b, "?")

\* mutant of RepairPrefix: "I" is put before every first chunk
RepairPrefix_Always(b) == "I" \o b

\* main_agent.py:230-252, the repairs of the first chunk
RepairPrefix(b) ==
    IF StartsWith(b, " apologize") \/ StartsWith(b, "apologize")
        THEN "I " \o LStrip(b)
    ELSE IF StartsWith(b, " am") \/ StartsWith(b, "am ")
        THEN "I" \o b
    ELSE IF StartsWith(b, "'d ") \/ StartsWith(b, "d ")
        THEN "I" \o Replace(b, "d ", "'d ")
    ELSE IF StartsWith(b, "'ll ") \/ StartsWith(b, "ll ")
        THEN "I" \o Replace(b, "ll ", "'ll ")
    ELSE IF StartsWith(b, "'m ") \/ StartsWith(b, "m ")
        THEN "I" \o Replace(b, "m ", "'m ")
    ELSE IF StartsWith(b, " can") \/ StartsWith(b, "can ")
        THEN "I" \o b
    ELSE IF StartsWith(b, " will") \/ StartsWith(b, "will ")
        THEN "I" \o b
    ELSE IF StartsWith(b, "he ") /\ Len(b) < MaxRepairLen
        THEN "T" \o b
    ELSE IF StartsWith(b, "et ") /\ Len(b) < MaxRepairLen
        THEN "L" \o b
    ELSE IF StripNonEmpty(b) /\ StartsWith(b, " ") /\ Len(b) < MaxRepairLen
        THEN "I" \o b
    ELSE b

\* main_agent.py:269
BoundaryChars == {" ", ".", "!", "?", "\n", ",", ":", "-", ";"}

\* mutant of EndsWithBoundary: the hyphen is no boundary character
EndsWithBoundary_NoHyphen(b) ==
    \E c \in BoundaryChars \ {"-"} : EndsWith(b, c)

EndsWithBoundary(b) == \E c \in BoundaryChars : EndsWith(b, c)

\* mutant of AgentResponse: the response field carries the delta only
AgentResponse_DeltaOnly(response, delta) ==
    [response |-> delta, delta |-> delta]

\* AgentResponse (main_agent.py:31-36)
AgentResponse(response, delta) == [response |-> response, delta |-> delta]

(***************************************************************************)
(* generate_events (api.py:96-122), the consumer of the reassembler.       *)
(***************************************************************************)
\* mutant of OnContent: the accumulator is overwritten, not extended
OnContent_Overwrite(delta) ==
    /\ full_response' = delta
    /\ events' = Append(events, Ev("content", delta))
    /\ UNCHANGED <<messages, writes, gpc>>

\* mutant of OnContent: the partial text is saved with every delta
OnContent_SaveEach(delta) ==
    /\ full_response' = full_response \o delta
    /\ events' = Append(events, Ev("content", delta))
    /\ messages' = [messages EXCEPT
                       ![message].agent_response = full_response \o delta]
    /\ writes' = writes + 1
    /\ UNCHANGED gpc

\* api.py:104-107: a non-empty delta
OnContent(delta) ==
    /\ full_response' = full_response \o delta
    /\ events' = Append(events, Ev("content", delta))
    /\ UNCHANGED <<messages, writes, gpc>>

\* mutant of ErrorEvents: the except block sends the error event only
ErrorEvents_NoDone == <<Ev("error", "Error processing request")>>

\* api.py:117-122: the except block
ErrorEvents == <<Ev("error", "Error processing request"), Ev("done", "")>>

\* api.py:108-115: the empty delta; message.save() may raise
OnCompletion(saveOk) ==
    IF saveOk
    THEN /\ messages' = [messages EXCEPT
                            ![message].agent_response = full_response]
         /\ writes' = writes + 1
         /\ events' = Append(events, Ev("done", ""))
         /\ gpc' = "after_done"
         /\ UNCHANGED full_response
    ELSE /\ events' = events \o ErrorEvents
         /\ gpc' = "finished"
         /\ UNCHANGED <<messages, writes, full_response>>

\* what generate_events does with one yielded AgentResponse
Consume(resp) ==
    IF resp.delta # "" THEN OnContent(resp.delta) ELSE OnCompletion(TRUE)

\* api.py:98-100: the first event
SendThreadId ==
    /\ gpc = "start"
    /\ gpc' = "loop"
    /\ events' = Append(events, Ev("thread_id", thread))
    /\ UNCHANGED <<store, handler, full_response, writes, reassembler,
                   toolResult, model_stream>>

\* mutant of ModelRequestNode: the boundary flag starts again with the node
ModelRequestNode_ResetFlag ==
    /\ gpc = "loop"
    /\ rpc = "start"
    /\ rpc' = "stream"
    /\ initial_buffer' = ""
    /\ first_response_started' = FALSE
    /\ toolResult' = NoResult
    /\ UNCHANGED <<store, handler, controller, current_text, buffer,
                   nfrags, lastEvent, yielded, model_stream>>

\* main_agent.py:210-214: a model-request node starts; the request takes a
\* pending tool return to the model
ModelRequestNode ==
    /\ gpc = "loop"
    /\ rpc = "start"
    /\ rpc' = "stream"
    /\ initial_buffer' = ""
    /\ toolResult' = NoResult
    /\ UNCHANGED <<store, handler, controller, current_text, buffer,
                   first_response_started, nfrags, lastEvent, yielded,
                   model_stream>>

\* main_agent.py:216-276: one TextPartDelta event, and what generate_events
\* does with the AgentResponse it may yield
TextPartDelta(content_delta) ==
    /\ gpc = "loop"
    /\ rpc = "stream"
    /\ nfrags' = nfrags + 1
    /\ lastEvent' = "TextPartDelta"
    /\ raw' = raw \o content_delta
    /\ IF ~first_response_started
       THEN LET ib == initial_buffer \o content_delta
                out == RepairPrefix(ib)
            IN  IF InitialReady(ib)
                THEN /\ current_text' = out
                     /\ yielded' = Append(yielded, AgentResponse(out, out))
                     /\ Consume(AgentResponse(out, out))
                     /\ first_response_started' = TRUE
                     /\ initial_buffer' = ""
                     /\ UNCHANGED buffer
                ELSE /\ initial_buffer' = ib
                     /\ UNCHANGED <<current_text, buffer, yielded,
                                    first_response_started, controller,
                                    messages>>
       ELSE LET b == buffer \o content_delta
            IN  IF EndsWithBoundary(b)
                THEN /\ current_text' = current_text \o b
                     /\ yielded' = Append(yielded,
                                      AgentResponse(current_text \o b, b))
                     /\ Consume(AgentResponse(current_text \o b, b))
                     /\ buffer' = ""
                     /\ UNCHANGED <<initial_buffer, first_response_started>>
                ELSE /\ buffer' = b
                     /\ UNCHANGED <<current_text, initial_buffer, yielded,
                                    first_response_started, controller,
                                    messages>>
    /\ UNCHANGED <<threads, handler, rpc, toolResult>>

\* the model stream delivers any of the fragments
StreamTextDelta ==
    /\ nfrags < MaxFrags
    /\ \E content_delta \in Fragments : TextPartDelta(content_delta)
    /\ UNCHANGED script

\* the model stream delivers the next piece, of any length, of the response
\* text it has still to deliver
ScriptTextDelta ==
    /\ script # ""
    /\ \E k \in 1..Len(script) :
          /\ TextPartDelta(SubSeq(script, 1, k))
          /\ script' = SubSeq(script, k + 1, Len(script))

\* mutant of OtherEvent: an event that is no text delta ends the initial
\* phase
OtherEvent_Start ==
    /\ gpc = "loop"
    /\ rpc = "stream"
    /\ \E e \in OtherEvents : lastEvent' = e
    /\ first_response_started' = TRUE
    /\ UNCHANGED <<store, handler, controller, rpc, current_text, buffer,
                   initial_buffer, nfrags, yielded, toolResult,
                   model_stream>>

\* main_agent.py:216-217: an event that is no TextPartDelta
OtherEvent ==
    /\ gpc = "loop"
    /\ rpc = "stream"
    /\ \E e \in OtherEvents : lastEvent' = e
    /\ UNCHANGED <<store, handler, controller, rpc, current_text, buffer,
                   initial_buffer, first_response_started, nfrags, yielded,
                   toolResult, model_stream>>

\* the request stream is exhausted, the response text delivered; the next
\* node is a CallToolsNode, which main_agent.py:210/278 passes over
RequestStreamEnd ==
    /\ gpc = "loop"
    /\ rpc = "stream"
    /\ script = ""
    /\ rpc' = "call_tools"
    /\ lastEvent' = None
    /\ UNCHANGED <<store, handler, controller, current_text, buffer,
                   initial_buffer, first_response_started, nfrags, yielded,
                   toolResult, model_stream>>

\* mutant of Fail: the exception ends the stream without an event
Fail_Silent ==
    /\ events' = events
    /\ gpc' = "finished"
    /\ rpc' = "closed"

\* mutant of Fail: after the error the agent is run again
Fail_Retry ==
    /\ events' = events \o ErrorEvents
    /\ gpc' = "loop"
    /\ rpc' = "start"

\* the except block of generate_events ends the stream
Fail ==
    /\ events' = events \o ErrorEvents
    /\ gpc' = "finished"
    /\ rpc' = "closed"

\* the agent run executes the tool call of the model's response: what the
\* tool returns goes to the model with the next request, what it raises
\* leaves the run
ToolReturns(result) ==
    /\ toolResult' = result
    /\ IF result.raised
       THEN /\ Fail
            /\ UNCHANGED <<full_response, writes>>
       ELSE /\ rpc' = "start"
            /\ UNCHANGED controller
    /\ UNCHANGED <<store, handler, current_text, buffer, initial_buffer,
                   first_response_started, nfrags, lastEvent, yielded,
                   model_stream>>

CallDocumentSearch ==
    /\ gpc = "loop"
    /\ rpc = "call_tools"
    /\ "qdrant_search_tool" \in agent.tools
    /\ \E ranking \in Rankings, num_results \in {1, DefaultNumResults},
          user_id \in UserIds \cup {""}, fault \in SearchFaults :
          ToolReturns(qdrant_search_tool(ranking, num_results, user_id,
                                          fault))

CallWebSearch ==
    /\ gpc = "loop"
    /\ rpc = "call_tools"
    /\ "web_search_tool" \in agent.tools
    /\ \E keySet \in BOOLEAN, apiOk \in BOOLEAN :
          ToolReturns(web_search_tool(DefaultNumResults, keySet, apiOk))

\* mutant of EndNodeFlush: `if buffer:` is left out
EndNodeFlush_Always ==
    /\ gpc = "loop"
    /\ rpc = "call_tools"
    /\ current_text' = current_text \o buffer
    /\ yielded' = Append(yielded,
                         AgentResponse(current_text \o buffer, buffer))
    /\ Consume(AgentResponse(current_text \o buffer, buffer))
    /\ rpc' = "end_flushed"
    /\ UNCHANGED <<threads, handler, buffer, initial_buffer,
                   first_response_started, nfrags, lastEvent,
                   toolResult, model_stream>>

\* main_agent.py:278-287: the End node, with text left in `buffer`
EndNodeFlush ==
    /\ gpc = "loop"
    /\ rpc = "call_tools"
    /\ buffer # ""
    /\ current_text' = current_text \o buffer
    /\ yielded' = Append(yielded,
                         AgentResponse(current_text \o buffer, buffer))
    /\ Consume(AgentResponse(current_text \o buffer, buffer))
    /\ rpc' = "end_flushed"
    /\ UNCHANGED <<threads, handler, buffer, initial_buffer,
                   first_response_started, nfrags, lastEvent,
                   toolResult, model_stream>>

\* main_agent.py:289-295: the empty delta that signals completion, and
\* api.py:108-122
EndNodeComplete ==
    /\ gpc = "loop"
    /\ \/ rpc = "call_tools" /\ buffer = ""
       \/ rpc = "end_flushed"
    /\ yielded' = Append(yielded, AgentResponse(current_text, ""))
    /\ \E saveOk \in BOOLEAN :
          /\ OnCompletion(saveOk)
          /\ rpc' = IF saveOk THEN "after_end" ELSE "closed"
    /\ UNCHANGED <<threads, handler, current_text, buffer, initial_buffer,
                   first_response_started, nfrags, lastEvent,
                   toolResult, model_stream>>

\* an exception out of agent.iter, node.stream or the model provider while
\* generate_events waits for the next AgentResponse
StreamingFailure ==
    /\ gpc = "loop"
    /\ rpc \in {"start", "stream", "call_tools"}
    /\ Fail
    /\ lastEvent' = None
    /\ UNCHANGED <<store, handler, full_response, writes, current_text,
                   buffer, initial_buffer, first_response_started, nfrags,
                   yielded, toolResult, model_stream>>

\* after `done`, generate_events asks the reassembler for the next item
\* (api.py:103): the reassembler leaves its loops and `async with
\* agent.iter`, which ends the iteration or raises
RunExit ==
    /\ gpc = "after_done"
    /\ \E exitOk \in BOOLEAN :
          IF exitOk
          THEN /\ gpc' = "finished"
               /\ rpc' = "closed"
               /\ UNCHANGED events
          ELSE Fail
    /\ UNCHANGED <<store, handler, full_response, writes, current_text,
                   buffer, initial_buffer, first_response_started,
                   nfrags, lastEvent, yielded, toolResult,
                   model_stream>>

\* the client goes away: the response task is cancelled and the generator
\* is never resumed (a cancellation is no Exception for api.py:117)
Disconnect ==
    /\ gpc \in {"start", "loop", "after_done"}
    /\ gpc' = "closed"
    /\ rpc' = "closed"
    /\ lastEvent' = None
    /\ UNCHANGED <<store, handler, events, full_response, writes,
                   current_text, buffer, initial_buffer,
                   first_response_started, nfrags, yielded,
                   toolResult, model_stream>>

Next ==
    \/ chat_endpoint
    \/ SendThreadId
    \/ ModelRequestNode
    \/ StreamTextDelta
    \/ OtherEvent
    \/ RequestStreamEnd
    \/ CallDocumentSearch
    \/ CallWebSearch
    \/ EndNodeFlush
    \/ EndNodeComplete
    \/ StreamingFailure
    \/ RunExit
    \/ Disconnect

Spec == Init /\ [][Next]_vars

\* the requests whose streams are followed to their end: a web search and a
\* document search of user uA, each on a new thread
LiveRequests ==
    { [user_id |-> "uA", query |-> "q", thread_id |-> None,
       web_search |-> TRUE, document_id |-> None],
      [user_id |-> "uA", query |-> "q", thread_id |-> None,
       web_search |-> FALSE, document_id |-> "dA"] }

\* the state in which stream_agent_response leaves an accepted request
LiveInit ==
    \E r \in LiveRequests :
        LET a == AgentFor(EffectiveWebSearch(r), UseDocumentSearch(r),
                          r.user_id, TRUE)
            ths1 == CreateThread(InitThreads, NewThreadId, r.user_id)
        IN  /\ req = r
            /\ httpStatus = 200
            /\ agent = [tools |-> a.tools, scope |-> a.scope]
            /\ thread = NewThreadId
            /\ message = NewMessageId
            /\ conversation_history =
                   History(ths1, InitMessages, NewThreadId, r.query)
            /\ exception = None
            /\ caller = None
            /\ turns = [i \in Turns |-> NoTurn]
            /\ collection = InitCollection
            /\ custom_documents = Documents
            /\ search = NoSearch
            /\ messages =
                   CreateMessage(InitMessages, NewMessageId, r.user_id,
                                 r.query)
            /\ threads = AppendMessage(ths1, NewThreadId, NewMessageId)
            /\ gpc = "start"
            /\ events = <<>>
            /\ full_response = ""
            /\ writes = 0
            /\ rpc = "start"
            /\ current_text = ""
            /\ buffer = ""
            /\ initial_buffer = ""
            /\ first_response_started = FALSE
            /\ nfrags = 0
            /\ lastEvent = None
            /\ yielded = <<>>
            /\ toolResult = NoResult
            /\ script = ""
            /\ raw = ""

LiveNext ==
    \/ SendThreadId
    \/ ModelRequestNode
    \/ StreamTextDelta
    \/ OtherEvent
    \/ RequestStreamEnd
    \/ CallDocumentSearch
    \/ CallWebSearch
    \/ EndNodeFlush
    \/ EndNodeComplete
    \/ StreamingFailure
    \/ RunExit
    \/ Disconnect

\* The request with a finite raw stream: the event loop keeps running what
\* can run (asyncio resumes every ready coroutine), a request stream that
\* can end does end, and a run that can reach its End node does reach it,
\* so the model neither sends events without end nor calls tools without
\* end
LiveSpec ==
    /\ LiveInit
    /\ [][LiveNext]_vars
    /\ WF_vars(LiveNext)
    /\ SF_vars(RequestStreamEnd)
    /\ SF_vars(EndNodeFlush \/ EndNodeComplete)

(***************************************************************************)
(* One model request whose response text is delivered in every possible    *)
(* fragmentation: the run of the reassembler for a plain chat request of   *)
(* user uA, from the state in which stream_agent_response leaves it.       *)
(***************************************************************************)
PlainRequest ==
    [user_id |-> "uA", query |-> "q", thread_id |-> None,
     web_search |-> FALSE, document_id |-> None]

ScriptInit ==
    LET r == PlainRequest
        ths1 == CreateThread(InitThreads, NewThreadId, r.user_id)
    IN  /\ req = r
        /\ httpStatus = 200
        /\ agent = [tools |-> {}, scope |-> None]
        /\ thread = NewThreadId
        /\ message = NewMessageId
        /\ conversation_history =
               History(ths1, InitMessages, NewThreadId, r.query)
        /\ exception = None
        /\ caller = None
        /\ turns = [i \in Turns |-> NoTurn]
        /\ collection = InitCollection
        /\ custom_documents = Documents
        /\ search = NoSearch
        /\ messages =
               CreateMessage(InitMessages, NewMessageId, r.user_id, r.query)
        /\ threads = AppendMessage(ths1, NewThreadId, NewMessageId)
        /\ gpc = "start"
        /\ events = <<>>
        /\ full_response = ""
        /\ writes = 0
        /\ rpc = "start"
        /\ current_text = ""
        /\ buffer = ""
        /\ initial_buffer = ""
        /\ first_response_started = FALSE
        /\ nfrags = 0
        /\ lastEvent = None
        /\ yielded = <<>>
        /\ toolResult = NoResult
        /\ script \in Scripts
        /\ raw = ""

ScriptNext ==
    \/ SendThreadId
    \/ ModelRequestNode
    \/ ScriptTextDelta
    \/ RequestStreamEnd
    \/ EndNodeFlush
    \/ EndNodeComplete

ScriptSpec == ScriptInit /\ [][ScriptNext]_vars

(***************************************************************************)
(* Two calls of chat_endpoint at the same time, on one conversation store. *)
(* Each call has its own locals (api.py:49-122; main_agent.py:184-188) and *)
(* its own agent and model stream; the calls meet in the store only.  The  *)
(* steps of a call are its store operations, which calls in different      *)
(* worker processes or instances of the service interleave freely: src     *)
(* holds no lock, no transaction and nothing that confines the service to  *)
(* one event loop.  The reassembler is left out here: the deltas a call    *)
(* gets are the fragments of its own model stream.                         *)
(***************************************************************************)
\* the state of the single request of Spec, which these calls leave alone
single ==
    <<req, httpStatus, agent, thread, message, conversation_history,
      exception, caller, index, controller, reassembler, toolResult,
      model_stream>>

\* thread.save() (api.py:93) of a Thread loaded before: mongoengine writes
\* the changed field, the whole `messages` list the call holds, with $set
ThreadSave(ths, tid, loaded) == [ths EXCEPT ![tid].messages = loaded]

\* mutant of SaveResponse: the response is written to every Message
SaveResponse_All(msgs, mid, text) ==
    [m \in DOMAIN msgs |-> [msgs[m] EXCEPT !.agent_response = text]]

\* message.agent_response = full_response; message.save() (api.py:110-111)
SaveResponse(msgs, mid, text) ==
    [msgs EXCEPT ![mid].agent_response = text]

\* api.py:56-68: the user and the thread are looked up, or the thread is
\* created; a lookup that fails ends the call (api.py:129-130)
ResolveThread(i) ==
    /\ turns[i].pc = "none"
    /\ \E r \in TurnRequests :
          IF ResolutionFails(threads, r)
          THEN /\ turns' = [turns EXCEPT ![i].req = r, ![i].pc = "rejected"]
               /\ UNCHANGED store
          ELSE IF r.thread_id = None
          THEN /\ threads' = CreateThread(threads, TurnThreadId[i], r.user_id)
               /\ turns' = [turns EXCEPT ![i].req = r,
                                         ![i].pc = "resolved",
                                         ![i].thread = TurnThreadId[i],
                                         ![i].thread_messages = <<>>]
               /\ UNCHANGED messages
          ELSE /\ turns' = [turns EXCEPT
                               ![i].req = r,
                               ![i].pc = "resolved",
                               ![i].thread = r.thread_id,
                               ![i].thread_messages =
                                   threads[r.thread_id].messages]
               /\ UNCHANGED store
    /\ UNCHANGED single

\* api.py:84-89: the draft is saved
SaveDraft(i) ==
    /\ turns[i].pc = "resolved"
    /\ messages' = CreateMessage(messages, TurnMessageId[i],
                                 turns[i].req.user_id, turns[i].req.query)
    /\ turns' = [turns EXCEPT ![i].pc = "drafted",
                              ![i].message = TurnMessageId[i]]
    /\ UNCHANGED <<threads, single>>

\* api.py:92-93: the draft is appended to the list the call holds, and the
\* thread is saved
SaveThread(i) ==
    /\ turns[i].pc = "drafted"
    /\ LET appended == Append(turns[i].thread_messages, turns[i].message)
       IN  /\ threads' = ThreadSave(threads, turns[i].thread, appended)
           /\ turns' = [turns EXCEPT ![i].pc = "persisted",
                                     ![i].thread_messages = appended]
    /\ UNCHANGED <<messages, single>>

\* api.py:98-100
TurnSendThreadId(i) ==
    /\ turns[i].pc = "persisted"
    /\ turns' = [turns EXCEPT
                    ![i].pc = "streaming",
                    ![i].events = Append(@, Ev("thread_id", turns[i].thread))]
    /\ UNCHANGED <<store, single>>

\* api.py:103-107: a delta of the call's own run
Deliver(i) ==
    /\ turns[i].pc = "streaming"
    /\ Len(turns[i].events) <= MaxFrags
    /\ \E delta \in TurnFragments[i] :
          turns' = [turns EXCEPT
                      ![i].raw = @ \o delta,
                      ![i].full_response = @ \o delta,
                      ![i].events = Append(@, Ev("content", delta))]
    /\ UNCHANGED <<store, single>>

\* api.py:108-115: the empty delta
Complete(i) ==
    /\ turns[i].pc = "streaming"
    /\ messages' = SaveResponse(messages, turns[i].message,
                                turns[i].full_response)
    /\ turns' = [turns EXCEPT ![i].pc = "done",
                              ![i].events = Append(@, Ev("done", ""))]
    /\ UNCHANGED <<threads, single>>

ConcNext ==
    \E i \in Turns :
        \/ ResolveThread(i)
        \/ SaveDraft(i)
        \/ SaveThread(i)
        \/ TurnSendThreadId(i)
        \/ Deliver(i)
        \/ Complete(i)

ConcSpec == Init /\ [][ConcNext]_vars

(***************************************************************************)
(* POST /chat as a caller meets it.  `caller` is the user whose bearer     *)
(* token the caller holds, the identity get_current_user                   *)
(* (auth_utils.py:62-85) would establish, or None without a token.         *)
(* chat_endpoint (api.py:163-164) declares no such dependency: the handler *)
(* takes user_id from the request body and never reads the token.          *)
(***************************************************************************)
AuthInit ==
    /\ caller \in Users \cup {None}
    /\ req = NoRequest
    /\ httpStatus = 0
    /\ threads = InitThreads
    /\ messages = InitMessages
    /\ agent = NoAgent
    /\ thread = None
    /\ message = None
    /\ conversation_history = <<>>
    /\ exception = None
    /\ turns = [i \in Turns |-> NoTurn]
    /\ collection = InitCollection
    /\ custom_documents = Documents
    /\ search = NoSearch
    /\ gpc = "none"
    /\ events = <<>>
    /\ full_response = ""
    /\ writes = 0
    /\ rpc = "none"
    /\ current_text = ""
    /\ buffer = ""
    /\ initial_buffer = ""
    /\ first_response_started = FALSE
    /\ nfrags = 0
    /\ lastEvent = None
    /\ yielded = <<>>
    /\ toolResult = NoResult
    /\ script = ""
    /\ raw = ""

AuthNext == chat_endpoint

AuthSpec == AuthInit /\ [][AuthNext]_vars

(***************************************************************************)
(* The document index from empty stores.                                   *)
(***************************************************************************)
IndexInit ==
    /\ collection = {}
    /\ custom_documents = << >>
    /\ search = NoSearch
    /\ req = NoRequest
    /\ httpStatus = 0
    /\ threads = InitThreads
    /\ messages = InitMessages
    /\ agent = NoAgent
    /\ thread = None
    /\ message = None
    /\ conversation_history = <<>>
    /\ exception = None
    /\ caller = None
    /\ turns = [i \in Turns |-> NoTurn]
    /\ gpc = "none"
    /\ events = <<>>
    /\ full_response = ""
    /\ writes = 0
    /\ rpc = "none"
    /\ current_text = ""
    /\ buffer = ""
    /\ initial_buffer = ""
    /\ first_response_started = FALSE
    /\ nfrags = 0
    /\ lastEvent = None
    /\ yielded = <<>>
    /\ toolResult = NoResult
    /\ script = ""
    /\ raw = ""

IndexNext ==
    \/ \E d \in DOMAIN Documents : upload_document(d)
    \/ \E d \in DOMAIN Documents : CustomDocument_delete(d)
    \/ document_search

IndexSpec == IndexInit /\ [][IndexNext]_vars

(***************************************************************************)
(* Properties.                                                             *)
(***************************************************************************)
RECURSIVE ContentText(_)
\* the content of the content events of a stream, concatenated in order
ContentText(evs) ==
    IF evs = <<>> THEN ""
    ELSE IF Head(evs).type = "content"
         THEN Head(evs).content \o ContentText(Tail(evs))
         ELSE ContentText(Tail(evs))

CountType(evs, type) ==
    Cardinality({i \in 1..Len(evs) : evs[i].type = type})

HasError == CountType(events, "error") > 0
HasDone == CountType(events, "done") > 0

\* the request is answered and nothing of it is still running
Terminated == httpStatus = 500 \/ gpc \in {"finished", "closed"}

\* the response stored for the turn's draft
StoredResponse == messages[message].agent_response

\* the draft turn is in the store, at the end of the resolved thread
DraftStored ==
    /\ message \in DOMAIN messages
    /\ messages[message].user_query = req.query
    /\ messages[message].user = req.user_id
    /\ thread \in DOMAIN threads
    /\ threads[thread].messages # <<>>
    /\ threads[thread].messages[Len(threads[thread].messages)] = message

\* C1: a finalized turn (done emitted, no error) has as persisted response
\* the concatenation, in emission order, of its content events
C1_FinalizedResponseIsConcat ==
    (httpStatus = 200 /\ HasDone /\ ~HasError)
        => StoredResponse = ContentText(events)

C1_Witness ==
    /\ gpc = "finished"
    /\ ~HasError
    /\ CountType(events, "content") >= 2
    /\ StoredResponse = ContentText(events)
    /\ StoredResponse # ""

\* C2: a finished stream is one thread_id event, then content events only,
\* then optionally one error event, then one done event as the last event
C2_EventOrder ==
    (httpStatus = 200 /\ gpc = "finished") =>
        LET n == Len(events)
        IN  /\ n >= 2
            /\ events[1].type = "thread_id"
            /\ events[n].type = "done"
            /\ \A i \in 2..(n - 1) :
                  \/ events[i].type = "content"
                  \/ i = n - 1 /\ events[i].type = "error"

\* C3: whatever the point of the failure, a finished stream holds the done
\* event exactly once
C3_DoneExactlyOnce ==
    (httpStatus = 200 /\ gpc = "finished") => CountType(events, "done") = 1

\* C4: in DocumentSearch mode the agent configuration carries the
\* requesting user's id as the scope of document_search
C4_ScopePropagated ==
    (httpStatus = 200 /\ req.document_id # None) => agent.scope = req.user_id

\* C5: no document_search result of the turn of user A holds a chunk stored
\* for another user, whatever user_id argument the tool call carries
C5_NoForeignChunks ==
    (httpStatus = 200 /\ toolResult.tool = "qdrant_search_tool") =>
        \A i \in 1..Len(toolResult.results) :
            ChunkOwner(toolResult.results[i]) = req.user_id

\* C6: a turn that fails after content events were emitted has the text
\* emitted so far as its persisted response
C6_PartialResponsePreserved ==
    (httpStatus = 200 /\ gpc = "finished" /\ HasError
        /\ CountType(events, "content") > 0)
        => StoredResponse = ContentText(events)

\* the request names no User, or names a thread the user does not own
C7_UnknownUser == req.user_id \notin Users
C7_ForeignThread ==
    /\ req.thread_id # None
    /\ \/ req.thread_id \notin DOMAIN InitThreads
       \/ InitThreads[req.thread_id].user # req.user_id

C8_DraftBeforeStream ==
    /\ (gpc = "start" /\ events = <<>> /\ rpc = "start")
          => (DraftStored /\ StoredResponse = "")
    /\ (events # <<>> \/ rpc \notin {"none", "start"}) => DraftStored

C8_Witness ==
    /\ gpc = "finished"
    /\ HasError
    /\ CountType(events, "content") > 0
    /\ DraftStored
    /\ req.thread_id = None
    /\ thread \in DOMAIN threads

\* C9: the persisted response is written at most once, and not before the
\* stream completes: while content is streamed it is the empty string
C9_ResponseWrittenOnceAtCompletion ==
    httpStatus = 200 =>
        /\ writes <= 1
        /\ gpc \in {"start", "loop"} => (writes = 0 /\ StoredResponse = "")
        /\ writes = 1 =>
              (yielded # <<>> /\ yielded[Len(yielded)].delta = "")

C9_Witness ==
    /\ gpc = "loop"
    /\ CountType(events, "content") >= 2
    /\ full_response # ""
    /\ StoredResponse = ""

\* C10: when the terminal empty delta is emitted, no received text is left
\* unemitted: the pre-boundary buffer is empty, and text left in the
\* post-boundary buffer was emitted as the delta right before it
C10_EndFlushesPending ==
    (yielded # <<>> /\ yielded[Len(yielded)].delta = "") =>
        /\ initial_buffer = ""
        /\ buffer # "" =>
              /\ Len(yielded) >= 2
              /\ yielded[Len(yielded) - 1].delta = buffer


\* the positions of the empty deltas among the yielded AgentResponses
EmptyDeltas == {i \in 1..Len(yielded) : yielded[i].delta = ""}

\* C11: the reassembler yields the empty delta once, as its last item and
\* from the End node: every delta yielded before the End node is done is
\* non-empty, and a run past the End node has the empty delta as the last
\* and only empty item
C11_OneTerminalEmptyDelta ==
    /\ EmptyDeltas \subseteq {Len(yielded)}
    /\ rpc \in {"start", "stream", "call_tools", "end_flushed"}
          => EmptyDeltas = {}
    /\ rpc = "after_end" => EmptyDeltas = {Len(yielded)}

C11_Witness ==
    /\ rpc = "after_end"
    /\ Len(yielded) >= 3
    /\ EmptyDeltas = {Len(yielded)}
    /\ buffer # ""


\* the response text of the model request: what was received and what the
\* stream has still to deliver
ResponseText == raw \o script

\* a first, non-empty delta was yielded
FirstDeltaEmitted == yielded # <<>> /\ yielded[1].delta # ""

\* the text has 15 characters or more, or holds a sentence terminator
C12_Threshold(t) ==
    \/ Len(t) >= 15
    \/ \E i \in 1..Len(t) : SubSeq(t, i, i) \in {".", "!", "?"}

\* C12: within a model request, a first delta has been emitted exactly when
\* the text received so far has 15 characters or more or holds one of
\* '.', '!', '?': none is emitted below the threshold, and the fragment that
\* reaches the threshold emits it
C12_FirstDeltaAtThreshold == FirstDeltaEmitted <=> C12_Threshold(raw)

\* "I will be back." in four fragments: one first delta, at the fourth
\* fragment, then the terminal empty delta
C12_Witness ==
    /\ rpc = "after_end"
    /\ nfrags = 4
    /\ raw = "I will be back."
    /\ yielded = << AgentResponse("I will be back.", "I will be back."),
                    AgentResponse("I will be back.", "") >>


\* the last character of b is one of the nine boundary characters
C13_AtBoundary(b) ==
    /\ b # ""
    /\ SubSeq(b, Len(b), Len(b))
          \in {" ", ".", "!", "?", "\n", ",", ":", "-", ";"}

\* the pending buffer of the post-boundary phase with the fragment of this
\* step appended
C13_Appended == buffer \o SubSeq(raw', Len(raw) + 1, Len(raw'))

\* C13: a fragment received in the post-boundary phase is appended to the
\* pending buffer; the buffer is yielded as one delta and cleared if it now
\* ends with a boundary character, and otherwise nothing is yielded and the
\* buffer is kept
C13_EmitIffBoundary ==
    [][ (first_response_started /\ raw' # raw) =>
            IF C13_AtBoundary(C13_Appended)
            THEN /\ Len(yielded') = Len(yielded) + 1
                 /\ SubSeq(yielded', 1, Len(yielded)) = yielded
                 /\ yielded'[Len(yielded')].delta = C13_Appended
                 /\ buffer' = ""
            ELSE /\ yielded' = yielded
                 /\ buffer' = C13_Appended ]_vars

C13_Witness ==
    /\ rpc = "stream"
    /\ ResponseText = "Ok.a b,c:d-e"
    /\ Len(yielded) = 2
    /\ yielded[1].delta = "Ok."
    /\ yielded[2].delta = "a b,c:d-"
    /\ buffer = "e"


\* C14: when the response text of a model request begins with " apologize"
\* or "apologize", then however it is cut into fragments, the first delta
\* emitted begins with "I apologize", and not with " apolog"
C14_ApologizeRepaired ==
    ( /\ FirstDeltaEmitted
      /\ \/ StartsWith(ResponseText, " apologize")
         \/ StartsWith(ResponseText, "apologize") )
        => /\ StartsWith(yielded[1].delta, "I apologize")
           /\ ~StartsWith(yielded[1].delta, " apolog")

\* " apolog", "ize, I ", "misread": the first delta comes with the third
\* fragment
C14_Witness ==
    /\ raw = " apologize, I misread"
    /\ nfrags = 3
    /\ Len(yielded) = 1
    /\ yielded[1].delta = "I apologize, I misread"

\* the first delta is `fix` followed by what follows `token` in the
\* pre-boundary buffer, a prefix of the response text
C15_Repaired(token, fix) ==
    LET d == yielded[1].delta
    IN  /\ StartsWith(d, fix)
        /\ StartsWith(ResponseText,
                      token \o SubSeq(d, Len(fix) + 1, Len(d)))

\* C15: a pre-boundary buffer that begins with "'d " or "d " gives a first
\* delta of "I'd " and the unchanged rest of the buffer; likewise "'ll " and
\* "ll " give "I'll ", and "'m " and "m " give "I'm "
C15_ContractionRepaired ==
    FirstDeltaEmitted =>
        /\ StartsWith(ResponseText, "'d ") => C15_Repaired("'d ", "I'd ")
        /\ StartsWith(ResponseText, "d ") => C15_Repaired("d ", "I'd ")
        /\ StartsWith(ResponseText, "'ll ") => C15_Repaired("'ll ", "I'll ")
        /\ StartsWith(ResponseText, "ll ") => C15_Repaired("ll ", "I'll ")
        /\ StartsWith(ResponseText, "'m ") => C15_Repaired("'m ", "I'm ")
        /\ StartsWith(ResponseText, "m ") => C15_Repaired("m ", "I'm ")

\* the text begins with an uppercase letter
C16_Uppercase(t) ==
    /\ t # ""
    /\ SubSeq(t, 1, 1) \in
          {"A", "B", "C", "D", "E", "F", "G", "H", "I", "J", "K", "L", "M",
           "N", "O", "P", "Q", "R", "S", "T", "U", "V", "W", "X", "Y", "Z"}

\* C16: a pre-boundary buffer that begins with an uppercase letter is
\* emitted as it is (the first delta is a prefix of the response text), and
\* the repair table changes no first delta it has produced
C16_RepairKeepsCorrectPrefix ==
    FirstDeltaEmitted =>
        /\ C16_Uppercase(ResponseText)
              => StartsWith(ResponseText, yielded[1].delta)
        /\ RepairPrefix(yielded[1].delta) = yielded[1].delta

C16_Witness ==
    /\ ResponseText = "Inflation rose 2%, ok"
    /\ Len(yielded) = 1
    /\ yielded[1].delta = "Inflation rose 2"
    /\ RepairPrefix("Inflation rose 2") = "Inflation rose 2"


RECURSIVE JoinDeltas(_)
\* the deltas of a sequence of AgentResponses, concatenated in order
JoinDeltas(rs) ==
    IF rs = <<>> THEN "" ELSE Head(rs).delta \o JoinDeltas(Tail(rs))

\* the deltas after the first one are, in order and unaltered, the text
\* received last: together with the text still pending before the End node
\* flushes it, alone once the End node has flushed it
C17_LaterDeltasVerbatim ==
    \/ EndsWith(raw, JoinDeltas(Tail(yielded)) \o buffer)
    \/ /\ rpc \in {"end_flushed", "after_end", "closed"}
       /\ EndsWith(raw, JoinDeltas(Tail(yielded)))

\* C17: the boundary flag, once set, stays set through every step of the
\* turn, the steps that begin a further model-request round included, and
\* the deltas after the first are verbatim concatenations of consecutive
\* raw fragments: the repair table touches the first delta only
C17_RepairOnlyFirstDelta ==
    [][ /\ first_response_started => first_response_started'
        /\ first_response_started' => C17_LaterDeltasVerbatim' ]_vars

\* a second model-request round is about to begin after a tool call, with
\* the flag set and a later delta emitted
C17_Witness ==
    /\ rpc = "start"
    /\ toolResult.tool = "web_search_tool"
    /\ first_response_started
    /\ Len(yielded) = 2
    /\ yielded[2].delta # ""
    /\ yielded[2].delta = SubSeq(raw, Len(raw) - Len(yielded[2].delta) + 1,
                                 Len(raw))

\* C18: the toolset of the agent is the one of the mode of the request:
\* the document search tool alone for a request with a document id, else the
\* web search tool alone for a request with web_search set, else no tool;
\* it never holds both tools
C18_ToolsetByMode ==
    httpStatus = 200 =>
        /\ agent.tools =
              IF req.document_id # None THEN {"qdrant_search_tool"}
              ELSE IF req.web_search THEN {"web_search_tool"}
              ELSE {}
        /\ Cardinality(agent.tools) <= 1

C18_Witness ==
    /\ httpStatus = 200
    /\ req.document_id = "dA"
    /\ req.web_search
    /\ agent.tools = {"qdrant_search_tool"}

\* C19: a web_search call that meets an internal error raises nothing and
\* returns an empty result set
C19_WebSearchFailsOpen ==
    (toolResult.tool = "web_search_tool" /\ toolResult.fault # "none") =>
        /\ ~toolResult.raised
        /\ toolResult.results = <<>>

\* C20: a document_search call that meets an internal error raises nothing
\* and returns no result, with total_results 0
C20_DocumentSearchFailsOpen ==
    (toolResult.tool = "qdrant_search_tool" /\ toolResult.fault # "none") =>
        /\ ~toolResult.raised
        /\ toolResult.results = <<>>
        /\ toolResult.total_results = 0


\* C21: when a retrieval tool raises during a turn, the turn's event stream
\* still ends, and its last event is the one done event
C21_ToolFailureStillDone ==
    toolResult.raised =>
        /\ gpc = "finished"
        /\ events # <<>>
        /\ events[Len(events)].type = "done"
        /\ CountType(events, "done") = 1

\* a web search without its key has raised in a run that had streamed text
C21_Witness ==
    /\ toolResult.tool = "web_search_tool"
    /\ toolResult.raised
    /\ CountType(events, "content") > 0
    /\ gpc = "finished"
    /\ HasError
    /\ events[Len(events)].type = "done"


\* C22: when create_agent fails, the turn ends there: the request is
\* answered with an error, nothing is stored for it, no agent run is
\* started and no event, so no content event, is streamed
C22_ConfigFailureIsFatal ==
    exception = "create_agent" =>
        /\ httpStatus = 500
        /\ agent = NoAgent
        /\ gpc = "none"
        /\ rpc = "none"
        /\ events = <<>>
        /\ yielded = <<>>
        /\ threads = InitThreads
        /\ messages = InitMessages

\* create_agent failed for a request that names its user and its own thread
C22_Witness ==
    /\ exception = "create_agent"
    /\ req.user_id = "uA"
    /\ req.thread_id = "t1"
    /\ req.document_id = None
    /\ httpStatus = 500


\* the turns the resolved thread held before the request, and the number of
\* them that enter the context
C23_PriorTurns ==
    IF req.thread_id = None THEN <<>>
    ELSE InitThreads[req.thread_id].messages
C23_Taken ==
    IF Len(C23_PriorTurns) < HistoryWindow THEN Len(C23_PriorTurns)
    ELSE HistoryWindow

\* C23: for a thread with n prior turns the context has 2*min(n,2)+1
\* entries: the last min(n,2) prior turns in thread order, each as a user
\* entry followed by an assistant entry, then the query as a user entry;
\* the turn's own draft is none of the prior turns, and with n = 0 the
\* prompt is the query itself
C23_ContextWindow ==
    httpStatus = 200 =>
        LET n == Len(C23_PriorTurns)
            k == C23_Taken
            h == conversation_history
        IN  /\ Len(h) = 2 * k + 1
            /\ \A j \in 1..k :
                  LET m == C23_PriorTurns[n - k + j]
                  IN  /\ m # message
                      /\ h[2 * j - 1] =
                            [role |-> "user",
                             content |-> InitMessages[m].user_query]
                      /\ h[2 * j] =
                            [role |-> "assistant",
                             content |-> InitMessages[m].agent_response]
            /\ h[2 * k + 1] = [role |-> "user", content |-> req.query]
            /\ (n = 0) => formatted_prompt(req.query, h) = req.query
            /\ (n > 0) =>
                  /\ StartsWith(formatted_prompt(req.query, h),
                                "Previous conversation:\nUser: ")
                  /\ EndsWith(formatted_prompt(req.query, h),
                              "\n\nCurrent query: " \o req.query)

\* a thread of three turns gives the last two, a thread of one turn that
\* one
C23_Witness ==
    /\ httpStatus = 200
    /\ req.thread_id = "t1"
    /\ Len(conversation_history) = 5
    /\ conversation_history[1].content = "q2"
    /\ conversation_history[4].content = "r3"
    /\ formatted_prompt(req.query, conversation_history) =
          "Previous conversation:\nUser: q2\nAssistant: r2\n"
            \o "User: q3\nAssistant: r3\n\nCurrent query: q"


\* a thread that was not in the store before the request
C24_ThreadCreated == DOMAIN threads # DOMAIN InitThreads

C25_DisconnectKeepsPartial ==
    (gpc = "closed" /\ CountType(events, "content") > 0) =>
        /\ StoredResponse # ""
        /\ StoredResponse = full_response


\* C26: within one turn the agent run is started at most once: it starts
\* with the accepted request, from nothing, and no step follows a failure or
\* the end of the turn; the raw model events are consumed once each and in
\* arrival order: the text received only grows at its end, by one event
\* a step, and no more text is handed on than was received (the repair of
\* the first delta may add one letter)
C26_RunOnceInOrder ==
    [][ /\ ~HasError
        /\ ~Terminated
        /\ (rpc = "none") => (raw = "" /\ yielded = <<>> /\ events = <<>>)
        /\ (rpc # "none") => (rpc' # "none" /\ req' = req)
        /\ StartsWith(raw', raw)
        /\ (raw' # raw) => (nfrags' = nfrags + 1 /\ rpc = "stream")
        /\ SubSeq(yielded', 1, Len(yielded)) = yielded
        /\ SubSeq(events', 1, Len(events)) = events
        /\ Len(ContentText(events')) <= Len(raw') + 1 ]_vars

\* streaming has failed after text was received: the run is closed
C26_Witness ==
    /\ HasError
    /\ raw # ""
    /\ CountType(events, "content") > 0
    /\ toolResult = NoResult
    /\ rpc = "closed"
    /\ gpc = "finished"


\* the calls that have completed their persisting step
C27_Persisted(i) == turns[i].pc \in {"persisted", "streaming", "done"}

\* C27: a thread's turn sequence is append-only under concurrency: once two
\* requests that name the same thread have both persisted, the thread holds
\* both drafts, and the turns it held before are still there, in their
\* order, before the new ones
C27_AppendOnlyUnderConcurrency ==
    \A i \in Turns, j \in Turns :
        (/\ i # j
         /\ C27_Persisted(i) /\ C27_Persisted(j)
         /\ turns[i].req.thread_id # None
         /\ turns[i].req.thread_id = turns[j].req.thread_id) =>
            LET now == threads[turns[i].thread].messages
                before == InitThreads[turns[i].thread].messages
            IN  /\ \E k \in 1..Len(now) : now[k] = turns[i].message
                /\ \E k \in 1..Len(now) : now[k] = turns[j].message
                /\ Len(now) = Len(before) + 2
                /\ SubSeq(now, 1, Len(before)) = before

\* C28: concurrent turns are isolated: the content events, the accumulated
\* and the persisted response of each turn are the text of its own model
\* stream, and the final update of a turn writes its own Message only: the
\* other turn's Message and the earlier ones are as their owners left them
C28_TurnsIsolated ==
    /\ \A m \in DOMAIN InitMessages : messages[m] = InitMessages[m]
    /\ \A i \in Turns :
          /\ ContentText(turns[i].events) = turns[i].raw
          /\ turns[i].full_response = turns[i].raw
          /\ \A k \in 1..Len(turns[i].events) :
                turns[i].events[k].type = "content" =>
                    turns[i].events[k].content \in TurnFragments[i]
          /\ turns[i].pc \in {"drafted", "persisted", "streaming"} =>
                messages[turns[i].message].agent_response = ""
          /\ turns[i].pc = "done" =>
                /\ messages[turns[i].message].agent_response = turns[i].raw
                /\ messages[turns[i].message].user = turns[i].req.user_id

\* both turns, on the same thread, have streamed text; one has completed
\* while the other is still streaming
C28_Witness ==
    /\ turns[1].pc = "done"
    /\ turns[2].pc = "streaming"
    /\ turns[1].req.thread_id = "t1"
    /\ turns[2].req.thread_id = "t1"
    /\ turns[1].raw = "I w"
    /\ turns[2].raw = "We"
    /\ messages["m9"].agent_response = "I w"
    /\ messages["m10"].agent_response = ""


\* C29: a chat turn is executed only on behalf of an authenticated caller:
\* an accepted request, which has read the history of a thread of its
\* user_id and stored a draft turn in it, carries the user id the caller
\* has proven to be
C29_OnlyAuthenticatedCaller ==
    httpStatus = 200 => (caller # None /\ req.user_id = caller)


\* C30: in the post-boundary phase, after any fragment has been processed,
\* the text held in the pending buffer contains no boundary character
C30_BufferHoldsNoBoundary ==
    first_response_started =>
        \A i \in 1..Len(buffer) : SubSeq(buffer, i, i) \notin BoundaryChars


\* the event stream has started: the thread_id event is out
C31_Started == events # <<>> /\ events[1].type = "thread_id"

\* C31: under fairness, every turn whose event stream has started emits
\* done, when the raw stream reaches its end and when it raises, unless the
\* client has gone before; and the reassembler, once started, terminates
C31_EventuallyDone ==
    /\ C31_Started ~> (HasDone \/ gpc = "closed")
    /\ (rpc \in {"start", "stream", "call_tools", "end_flushed",
                  "after_end"}) ~> (rpc = "closed")

\* a raw stream that raised after text, with the client still there, has
\* ended in done
C31_Witness ==
    /\ C31_Started
    /\ HasError
    /\ raw # ""
    /\ events[Len(events)].type = "done"
    /\ gpc = "finished"
    /\ rpc = "closed"


\* the request names a document that does not exist or is another user's
C32_ForeignDocument ==
    /\ req.document_id # None
    /\ \/ req.document_id \notin DOMAIN Documents
       \/ Documents[req.document_id] # req.user_id

\* C32: a request that fails resolution (unknown user, thread not owned,
\* document unknown or not owned) creates no Thread and no Message, starts
\* no agent run and leaves every thread as it was
C32_FailedResolutionChangesNothing ==
    (httpStatus # 0 /\
        (C7_UnknownUser \/ C7_ForeignThread \/ C32_ForeignDocument)) =>
        /\ threads = InitThreads
        /\ messages = InitMessages
        /\ thread = None
        /\ message = None
        /\ rpc = "none"
        /\ yielded = <<>>
        /\ raw = ""

\* user uA asked with the document of user uB, and without thread id: the
\* request is refused before a thread is created
C32_Witness ==
    /\ httpStatus = 500
    /\ exception = "Document not found or access denied"
    /\ req.user_id = "uA"
    /\ req.document_id = "dB"
    /\ req.thread_id = None
    /\ DOMAIN threads = DOMAIN InitThreads
    /\ DOMAIN messages = DOMAIN InitMessages


\* C33: no text-delta fragment is dropped within a turn, tool rounds
\* included: the text received so far is, in arrival order, the end of the
\* text emitted so far followed by the text still held back, as long as
\* the End node has not flushed it
C33_NoFragmentDropped ==
    (rpc \in {"start", "stream", "call_tools"}) =>
        EndsWith(current_text \o initial_buffer \o buffer, raw)

\* the text of a response delivered in a single fragment: emitted at once,
\* repaired, when it passes the threshold, and never otherwise
C34_InOneFragment(t) == IF InitialReady(t) THEN RepairPrefix(t) ELSE ""

\* C34: the assembled response does not depend on the fragmentation: when
\* the run has ended, the concatenation of the deltas is what the same text
\* gives when it arrives in one fragment
C34_FragmentationIndependent ==
    (rpc \in {"after_end", "closed"}) =>
        JoinDeltas(yielded) = C34_InOneFragment(ResponseText)


\* C35: a document search returns, in rank order, the text of every hit the
\* vector store returned for the scoped query: none dropped, replaced or
\* reordered, also with several hits of one document
C35_AllHitsInRankOrder ==
    search.fault = "none" =>
        search.results = [i \in 1..Len(search.hits) |-> search.hits[i].chunk]

\* C38: once CustomDocument.delete has completed, the collection holds no
\* chunk of the deleted document, and a search made afterwards returns no
\* hit of a document that was not stored when it was made
C38_DeleteRemovesChunks ==
    /\ \A p \in collection : p.object_id \in DOMAIN custom_documents
    /\ \A i \in 1..Len(search.hits) :
          search.hits[i].object_id \in search.stored


\* the mode the flags of the request select
C36_Mode ==
    IF req.document_id # None THEN "DocumentSearch"
    ELSE IF req.web_search THEN "WebSearch"
    ELSE "PlainChat"

\* C36: an accepted request with a document id, which its user owns, runs
\* in DocumentSearch mode whatever its web_search flag: the toolset is the
\* document search and no other tool is called; without document id the
\* turn runs in WebSearch mode iff web_search is set, else in PlainChat mode
C36_ModeByRequest ==
    httpStatus = 200 =>
        /\ (req.document_id # None) =>
              /\ req.document_id \in DOMAIN Documents
              /\ Documents[req.document_id] = req.user_id
        /\ (C36_Mode = "DocumentSearch") =>
              /\ agent.tools = {"qdrant_search_tool"}
              /\ toolResult.tool \in {None, "qdrant_search_tool"}
        /\ (C36_Mode = "WebSearch") =>
              /\ agent.tools = {"web_search_tool"}
              /\ toolResult.tool \in {None, "web_search_tool"}
        /\ (C36_Mode = "PlainChat") =>
              /\ agent.tools = {}
              /\ toolResult.tool = None

\* a request with its own document and web_search set has called the
\* document search
C36_Witness ==
    /\ httpStatus = 200
    /\ req.document_id = "dA"
    /\ req.user_id = "uA"
    /\ req.web_search
    /\ toolResult.tool = "qdrant_search_tool"
    /\ ~toolResult.raised


\* C37: a raw model event that is no text delta (a part start or a
\* tool-call delta inside a request stream, a tool call with its result
\* between two requests) emits no delta and no event, and leaves the
\* accumulated text, the pending buffers and the boundary flag as they were
C37_OtherEventsIgnored ==
    [][ (\/ lastEvent' \in OtherEvents
         \/ /\ toolResult' # toolResult
            /\ toolResult'.tool # None
            /\ ~toolResult'.raised)
        => UNCHANGED <<current_text, buffer, initial_buffer,
                       first_response_started, yielded, events,
                       full_response, raw, messages>> ]_vars

\* an event that is no text delta has arrived while text was pending after
\* the first delta
C37_Witness ==
    /\ lastEvent \in OtherEvents
    /\ first_response_started
    /\ buffer # ""
    /\ rpc = "stream"


\* C39: the response field of every AgentResponse yielded in a run is the
\* concatenation of the deltas yielded up to and including it
C39_ResponseIsDeltasSoFar ==
    \A i \in 1..Len(yielded) :
        yielded[i].response = JoinDeltas(SubSeq(yielded, 1, i))

\* a run has yielded a first delta, later deltas and the closing empty
\* delta
C39_Witness ==
    /\ Len(yielded) >= 3
    /\ yielded[1].delta # ""
    /\ yielded[2].delta # ""
    /\ yielded[Len(yielded)].delta = ""
    /\ yielded[Len(yielded)].response = yielded[1].delta \o yielded[2].delta

====
